---- MODULE Spec2Model ----
(***************************************************************************)
(* Model of INNOWATT_BACKEND.py: the ThingsBoard telemetry relay.          *)
(*                                                                         *)
(* JSON / Python values are encoded uniformly so that TLC can compare them *)
(*   scalar  : [vt, n, s]   vt in {"missing","none","number","string"}     *)
(*             ("missing" = the dict has no such field; "none" = null)     *)
(*   text    : a sequence of one-character strings                         *)
(*   element : [isDict, value, ts] (an element of a telemetry array; a     *)
(*             non-dict element is any JSON value that is not an object)   *)
(*   payload : a set of pairs [k |-> key, a |-> array], keys unique        *)
(*   float   : an integer (only integral floats occur in the model)        *)
(***************************************************************************)
EXTENDS Integers, Sequences, FiniteSets, TLC

\* ------------------------------------------------------------------ bounds
MaxLen == 1        \* longest telemetry array in a payload
MaxKeys == 2       \* most keys present in a payload
MaxTime == 1       \* clock readings 1..MaxTime (time.time())

\* --------------------------------------------------------- Python scalars
None == "<None>"

Missing == [vt |-> "missing", n |-> 0, s |-> <<>>]
PyNone == [vt |-> "none", n |-> 0, s |-> <<>>]
PyNum(n) == [vt |-> "number", n |-> n, s |-> <<>>]
PyStr(s) == [vt |-> "string", n |-> 0, s |-> s]

Digits == <<"0", "1", "2", "3", "4", "5", "6", "7", "8", "9">>

IsDigit(c) == \E i \in 1..Len(Digits) : Digits[i] = c

DigitVal(c) == (CHOOSE i \in 1..Len(Digits) : Digits[i] = c) - 1

RECURSIVE DecimalValue(_)
DecimalValue(s) ==
  IF s = <<>> THEN 0
  ELSE 10 * DecimalValue(SubSeq(s, 1, Len(s) - 1)) + DigitVal(s[Len(s)])

\* float(x): [ok, f]; ok = FALSE stands for ValueError / TypeError
Float(x) ==
  CASE x.vt = "number" -> [ok |-> TRUE, f |-> x.n]
    [] x.vt = "string" ->
         IF x.s # <<>> /\ \A i \in 1..Len(x.s) : IsDigit(x.s[i])
         THEN [ok |-> TRUE, f |-> DecimalValue(x.s)]
         ELSE [ok |-> FALSE, f |-> 0]
    [] OTHER -> [ok |-> FALSE, f |-> 0]

\* dict.get(field) / dict.get(field, default) on an element's field
DictGet(x, default) == IF x.vt = "missing" THEN default ELSE x

\* --------------------------------------------------------------- payloads
HasKey(data, key) == \E p \in data : p.k = key

Get(data, key) == (CHOOSE p \in data : p.k = key).a

KeysOf(data) == {p.k : p \in data}

NonDict == [isDict |-> FALSE, value |-> Missing, ts |-> Missing]
Dict(value, ts) == [isDict |-> TRUE, value |-> value, ts |-> ts]

RECURSIVE SeqsUpTo(_, _)
SeqsUpTo(S, n) ==
  IF n = 0 THEN {<<>>}
  ELSE LET shorter == SeqsUpTo(S, n - 1)
       IN shorter \cup {Append(q, e) : q \in {x \in shorter : Len(x) = n - 1}, e \in S}

PayloadsOver(keys, elems, maxLen, maxKeys) ==
  LET arrays == SeqsUpTo(elems, maxLen)
      keysets == {K \in SUBSET keys : Cardinality(K) <= maxKeys}
  IN UNION {{{[k |-> x, a |-> f[x]] : x \in K} : f \in [K -> arrays]} : K \in keysets}

\* ---------------------------------------------------------- configuration
TELEMETRY_KEY_MAPPING ==
  [voltage |-> <<"Voltage", "voltage", "VOLTAGE">>,
   current |-> <<"Current", "current", "CURRENT">>,
   power |-> <<"Power", "power", "POWER">>,
   energy |-> <<"Energy", "energy", "ENERGY">>,
   frequency |-> <<"Frequency", "frequency", "FREQUENCY">>,
   powerfact |-> <<"PowerFact", "PF", "powerfactor", "Power_Factor">>,
   rmp |-> <<"RMP", "rmp", "Rmp">>]

\* the module global TELEMETRY_KEY_MAPPING as it stands (a dict, so mutable);
\* the definition above is the literal it is created from
VARIABLE key_mapping

\* TELEMETRY_KEY_MAPPING.get(key, [key])
MappingGet(key) ==
  IF key \in DOMAIN key_mapping THEN key_mapping[key] ELSE <<key>>

Range(s) == {s[i] : i \in 1..Len(s)}

\* ---------------------------------------------------------- key normaliser
RECURSIVE FindFrom(_, _, _)
FindFrom(data, possible_keys, i) ==
  IF i > Len(possible_keys) THEN None
  ELSE IF HasKey(data, possible_keys[i]) THEN possible_keys[i]
  ELSE FindFrom(data, possible_keys, i + 1)

RECURSIVE FindLastFrom(_, _, _)
FindLastFrom(data, possible_keys, i) ==
  IF i < 1 THEN None
  ELSE IF HasKey(data, possible_keys[i]) THEN possible_keys[i]
  ELSE FindLastFrom(data, possible_keys, i - 1)

find_matching_key_last(data, possible_keys) ==
  FindLastFrom(data, possible_keys, Len(possible_keys))

find_matching_key(data, possible_keys) == FindFrom(data, possible_keys, 1)

\* outcome of a call: exc = "none" is a normal return of (value, ts)
Returned(value, ts) == [exc |-> "none", value |-> value, ts |-> ts]
Raised(exc) == [exc |-> exc, value |-> 0, ts |-> PyNone]
Pending == [exc |-> "pending", value |-> 0, ts |-> PyNone]

\* as EntrySample, with the ts read inside the try block after the float()
EntrySampleTsInTry(entry) ==
  LET parsed == Float(DictGet(entry.value, PyNum(0)))
  IN IF parsed.ok THEN Returned(parsed.f, DictGet(entry.ts, PyNone))
     ELSE Returned(0, PyNone)

\* lines 183-188: the value and ts of one array element that is a dict
EntrySample(entry) ==
  LET parsed == Float(DictGet(entry.value, PyNum(0)))
  IN Returned(IF parsed.ok THEN parsed.f ELSE 0, DictGet(entry.ts, PyNone))

\* as get_value_and_timestamp, but indexing the payload with the key that was
\* not found
get_value_and_timestamp_strict(data, standard_key) ==
  LET possible_keys == MappingGet(standard_key)
      actual_key == find_matching_key(data, possible_keys)
  IN IF actual_key = None THEN Raised("KeyError")
     ELSE LET arr == Get(data, actual_key)
          IN IF Len(arr) = 0 THEN Raised("IndexError")
             ELSE IF ~arr[1].isDict THEN Raised("AttributeError")
             ELSE EntrySample(arr[1])

get_value_and_timestamp(data, standard_key) ==
  LET possible_keys == MappingGet(standard_key)
      actual_key == find_matching_key(data, possible_keys)
  IN IF actual_key = None THEN Returned(0, PyNone)
     ELSE LET arr == Get(data, actual_key)
          IN IF Len(arr) = 0 THEN Raised("IndexError")
             ELSE IF ~arr[1].isDict THEN Raised("AttributeError")
             ELSE EntrySample(arr[1])


\* lines 190-219; a raise in any get_value_and_timestamp call propagates
CanonicalOrder == <<"power", "voltage", "current", "frequency", "rmp", "energy", "powerfact">>

process_telemetry_data(telemetry_data, now) ==
  IF telemetry_data = {} THEN [exc |-> "none", isNone |-> TRUE, body |-> <<>>]
  ELSE LET s == [key \in Range(CanonicalOrder) |-> get_value_and_timestamp(telemetry_data, key)]
           failing == {i \in 1..Len(CanonicalOrder) : s[CanonicalOrder[i]].exc # "none"}
       IN IF failing # {}
          THEN [exc |-> s[CanonicalOrder[CHOOSE i \in failing : \A j \in failing : i <= j]].exc,
                isNone |-> FALSE, body |-> <<>>]
          ELSE [exc |-> "none", isNone |-> FALSE,
                body |-> <<[power |-> s["power"].value,
                            power_timestamp |-> s["power"].ts,
                            voltage |-> s["voltage"].value,
                            voltage_timestamp |-> s["voltage"].ts,
                            current |-> s["current"].value,
                            current_timestamp |-> s["current"].ts,
                            frequency |-> s["frequency"].value,
                            frequency_timestamp |-> s["frequency"].ts,
                            rmp |-> s["rmp"].value,
                            rmp_timestamp |-> s["rmp"].ts,
                            energy |-> s["energy"].value,
                            energy_timestamp |-> s["energy"].ts,
                            powerfactor |-> s["powerfact"].value,
                            powerfactor_timestamp |-> s["powerfact"].ts,
                            timestamp |-> now,
                            online |-> TRUE]>>]

\* lines 245-252: the tunnel URL
NgrokKeys == <<"ngrok_url", "Ngrok_Url", "NGROK_URL">>

RECURSIVE NgrokFrom(_, _)
NgrokFrom(telemetry_data, i) ==
  IF i > Len(NgrokKeys) THEN PyNone
  ELSE LET key == NgrokKeys[i]
       IN IF HasKey(telemetry_data, key) /\ Len(Get(telemetry_data, key)) > 0
          THEN LET first == Get(telemetry_data, key)[1]
               IN IF first.isDict /\ first.value.vt # "missing"
                  THEN first.value
                  ELSE NgrokFrom(telemetry_data, i + 1)
          ELSE NgrokFrom(telemetry_data, i + 1)

\* as ngrok_url, with the scan ending at the first alias that is present with a
\* non-empty array, whatever its first element holds
ngrok_url_first_present(telemetry_data) ==
  LET present == {i \in 1..Len(NgrokKeys) :
                    /\ HasKey(telemetry_data, NgrokKeys[i])
                    /\ Len(Get(telemetry_data, NgrokKeys[i])) > 0}
  IN IF present = {} THEN PyNone
     ELSE LET first == Get(telemetry_data,
                           NgrokKeys[CHOOSE i \in present : \A j \in present : i <= j])[1]
          IN IF first.isDict /\ first.value.vt # "missing" THEN first.value ELSE PyNone

ngrok_url(telemetry_data) == NgrokFrom(telemetry_data, 1)


\* ----------------------------------------------------- outbound requests
MaxAttempts == 3

THINGSBOARD_HOST == "https://demo.thingsboard.io"
LoginUrl == "/api/auth/login"
TelemetryUrl == "/api/plugins/telemetry/DEVICE/{DEVICE_ID}/values/timeseries"
ProbeHost == "8.8.8.8:53"

\* the keys get_telemetry asks for (line 237)
SnapshotKeys ==
  <<"power", "voltage", "current", "frequency", "rmp", "energy", "powerfact", "ngrok_url">>

\* str.lower() on the key names that occur
Lower(key) ==
  CASE key \in {"Voltage", "VOLTAGE"} -> "voltage"
    [] key \in {"Current", "CURRENT"} -> "current"
    [] key \in {"Power", "POWER"} -> "power"
    [] key \in {"Energy", "ENERGY"} -> "energy"
    [] key \in {"Frequency", "FREQUENCY"} -> "frequency"
    [] key = "PowerFact" -> "powerfact"
    [] key = "PF" -> "pf"
    [] key = "Power_Factor" -> "power_factor"
    [] key \in {"RMP", "Rmp"} -> "rmp"
    [] key \in {"Ngrok_Url", "NGROK_URL"} -> "ngrok_url"
    [] OTHER -> key

\* lines 124-139: the query parameters; 0 stands for a parameter left out
\* (a falsy start_ts, end_ts, interval or limit is left out as well)
BuildParams(keys, start_ts, end_ts, interval, limit) ==
  [keys |-> UNION {Range(MappingGet(Lower(keys[i]))) : i \in 1..Len(keys)},
   startTs |-> start_ts, endTs |-> end_ts, interval |-> interval, limit |-> limit]

\* as lines 126-130 with tb_keys bound to the table's own list for the first key
MappingAfterBuildAliased(mapping, keys) ==
  [mapping EXCEPT ![Lower(keys[1])] = @ \o mapping[Lower(keys[2])]]

\* lines 126-130: tb_keys is a fresh list and the table's lists are only read,
\* so building the params leaves the table as it was
MappingAfterBuild(mapping, keys) == mapping

NoParams == [keys |-> {}, startTs |-> 0, endTs |-> 0, interval |-> 0, limit |-> 0]

\* Python truthiness of a token (None and "" are falsy)
Truthy(t) == t \notin {None, ""}

\* response.raise_for_status() raises HTTPError
IsHttpError(status) == status >= 400 /\ status < 600

BackoffDoubled(attempt) == 2 ^ (attempt + 1)

\* 2 ** attempt
Backoff(attempt) == 2 ^ attempt

\* line 111: a sleep follows every failed attempt but the last
SleepsAfter(attempt) == attempt < 2

LoginNeverTerminal(status) == FALSE

\* line 104: a 401 from the login endpoint ends get_auth_token
LoginIsTerminal(status) == status = 401

AuthGateAlwaysOpen(reachable) == TRUE

\* line 95: get_auth_token goes on only when the probe reports reachable
AuthGateOpen(reachable) == reachable

NeedsRefreshAlways(phase, status) == status = 401

\* line 148: only the response to the first GET is examined for a 401
NeedsRefresh(phase, status) == phase = "first" /\ status = 401

RetryBearerOriginal(tok, new_tok) == tok

\* line 154: the retried GET carries new_token
RetryBearer(tok, new_tok) == new_tok

\* line 231: the route's first token
InitialToken(jwt) == IF Truthy(jwt) THEN jwt ELSE None

\* one entry of a request's log of outbound calls and sleeps
ProbeEv(by, reachable) ==
  [op |-> "probe", by |-> by, url |-> ProbeHost, token |-> None, params |-> NoParams,
   status |-> 0, ok |-> reachable, attempt |-> 0, secs |-> 0, kind |-> "none", data |-> {}]
LoginEv(att, status) ==
  [op |-> "login", by |-> "get_auth_token", url |-> LoginUrl, token |-> None,
   params |-> NoParams, status |-> status, ok |-> (status = 200), attempt |-> att, secs |-> 0,
   kind |-> "none", data |-> {}]
SleepEv(att, secs) ==
  [op |-> "sleep", by |-> "get_auth_token", url |-> "", token |-> None,
   params |-> NoParams, status |-> 0, ok |-> TRUE, attempt |-> att, secs |-> secs,
   kind |-> "none", data |-> {}]
GetEv(tok, url, query, resp) ==
  [op |-> "get", by |-> "fetch_telemetry", url |-> url, token |-> tok,
   params |-> query, status |-> resp.status, ok |-> (resp.status = 200), attempt |-> 0,
   secs |-> 0, kind |-> resp.kind, data |-> resp.data]

\* ------------------------------------------------- what upstream may answer
\* status 0: no response (transport failure, or the transport-level retry gave up)
LoginTokens == {"tokA", "tokB"}

LoginResponses ==
  [status : {0, 401, 500}, kind : {"none"}, token : {None}]
    \cup [status : {200}, kind : {"object"}, token : LoginTokens \cup {None}]

SnapshotElems == {NonDict, Dict(PyStr(<<"1", "2">>), PyNum(100))}

SnapshotPayloadKeys == {"Power", "ngrok_url"}

TelemetryResponsesOver(payloads) ==
  [status : {0, 401, 404, 500}, kind : {"none"}, data : {{}}]
    \cup [status : {200}, kind : {"notjson"}, data : {{}}]
    \cup [status : {200}, kind : {"object"}, data : payloads]

SnapshotPayloads == PayloadsOver(SnapshotPayloadKeys, SnapshotElems, MaxLen, MaxKeys)

\* ------------------------------------------------------ the route's answers
NoResponse ==
  [kind |-> "pending", status |-> 0, error |-> "", online |-> FALSE, body |-> <<>>, exc |-> ""]
AuthFailed ==
  [kind |-> "json", status |-> 401, error |-> "Authentication failed", online |-> FALSE,
   body |-> <<>>, exc |-> ""]
FetchFailed ==
  [kind |-> "json", status |-> 500, error |-> "Could not fetch telemetry", online |-> FALSE,
   body |-> <<>>, exc |-> ""]
Snapshot(processed) ==
  [kind |-> "json", status |-> 200, error |-> "", online |-> processed.online,
   body |-> <<processed>>, exc |-> ""]
Uncaught(exc) ==
  [kind |-> "uncaught", status |-> 500, error |-> "", online |-> FALSE, body |-> <<>>, exc |-> exc]

WithNgrok(processed, url) ==
  [f \in DOMAIN processed \cup {"ngrok_url"} |->
     IF f = "ngrok_url" THEN url ELSE processed[f]]

\* lines 240-255: get_telemetry once fetch_telemetry has returned telemetry_data
RouteTail(telemetry_data, now) ==
  IF telemetry_data = {} THEN FetchFailed
  ELSE LET processed == process_telemetry_data(telemetry_data, now)
       IN IF processed.exc # "none" THEN Uncaught(processed.exc)
          ELSE Snapshot(WithNgrok(processed.body[1], ngrok_url(telemetry_data)))


\* ------------------------------------------------------------------- state
Requests == {"r1", "r2"}

VARIABLES
  JWT_TOKEN,        \* os.getenv('TB_JWT_TOKEN'), read once at start-up
  pc,               \* where each request's get_telemetry call stands
  caller,           \* which call of get_auth_token is running: "initial" / "reauth"
  attempt,          \* get_auth_token's loop variable
  token,            \* get_telemetry's token
  new_token,        \* fetch_telemetry's new_token
  params,           \* fetch_telemetry's params
  net,              \* outbound calls and sleeps so far, in order
  auth_calls,       \* the calls of get_auth_token that ended, with their results
  fetched,          \* how fetch_telemetry ended
  response,         \* what the route answered
  rkey, rdata, rout, \* a direct call get_value_and_timestamp(rdata, rkey) and its outcome
  sdata, sdays, sout, \* a payload handed to the response shaping, and the answer shaped
  hb                \* the keep_alive_ping thread: where it stands, its last ping

vars == <<key_mapping, JWT_TOKEN, pc, caller, attempt, token, new_token, params,
          net, auth_calls, fetched, response, rkey, rdata, rout, sdata, sdays, sout, hb>>

reqvars == <<JWT_TOKEN, pc, caller, attempt, token, new_token, params,
             net, auth_calls, fetched, response>>

resolvevars == <<rkey, rdata, rout>>

shapevars == <<sdata, sdays, sout>>

NotFetched == [result |-> "pending", data |-> {}]
FetchedNone == [result |-> "none", data |-> {}]
FetchedData(data) == [result |-> "data", data |-> data]

InitRequests ==
  /\ key_mapping = TELEMETRY_KEY_MAPPING
  /\ JWT_TOKEN \in {None, "", "override"}
  /\ pc = [r \in Requests |-> "idle"]
  /\ caller = [r \in Requests |-> "none"]
  /\ attempt = [r \in Requests |-> 0]
  /\ token = [r \in Requests |-> None]
  /\ new_token = [r \in Requests |-> None]
  /\ params = [r \in Requests |-> NoParams]
  /\ net = [r \in Requests |-> <<>>]
  /\ auth_calls = [r \in Requests |-> <<>>]
  /\ fetched = [r \in Requests |-> NotFetched]
  /\ response = [r \in Requests |-> NoResponse]

\* no direct call of the resolving or shaping functions is under way
NoDirectResolve ==
  /\ rkey = "power"
  /\ rdata = {}
  /\ rout = Pending

NoDirectShape ==
  /\ sdata = {}
  /\ sdays = 0
  /\ sout = NoResponse

\* line 279: the thread is started and stands before its first ping
HeartbeatStarted == [pc |-> "ping", last |-> "none", slept |-> 0]

Init ==
  /\ InitRequests
  /\ NoDirectResolve
  /\ NoDirectShape
  /\ hb = HeartbeatStarted

\* ------------------------------------------------- get_telemetry, line 231
GetTelemetry(r) ==
  /\ pc[r] = "idle"
  /\ LET first == InitialToken(JWT_TOKEN)
     IN IF Truthy(first)
        THEN /\ token' = [token EXCEPT ![r] = first]
             /\ pc' = [pc EXCEPT ![r] = "fetch_gate"]
             /\ caller' = caller
        ELSE /\ caller' = [caller EXCEPT ![r] = "initial"]
             /\ pc' = [pc EXCEPT ![r] = "auth_gate"]
             /\ token' = token
  /\ UNCHANGED <<JWT_TOKEN, attempt, new_token, params, net, auth_calls,
                 fetched, response, key_mapping, resolvevars, shapevars, hb>>

\* fetch_telemetry returns None (lines 120, 164) and get_telemetry answers
\* with lines 240-241
FetchReturnsNone(r) ==
  /\ fetched' = [fetched EXCEPT ![r] = FetchedNone]
  /\ response' = [response EXCEPT ![r] = FetchFailed]
  /\ pc' = [pc EXCEPT ![r] = "done"]

\* get_auth_token returns v to the call site that called it
AuthReturns(r, v) ==
  /\ auth_calls' = [auth_calls EXCEPT ![r] = Append(@, [caller |-> caller[r], result |-> v])]
  /\ IF caller[r] = "initial"
     THEN /\ token' = [token EXCEPT ![r] = v]
          /\ new_token' = new_token
          /\ fetched' = fetched
          /\ IF Truthy(v)
             THEN /\ pc' = [pc EXCEPT ![r] = "fetch_gate"]
                  /\ response' = response
             ELSE /\ pc' = [pc EXCEPT ![r] = "done"]
                  /\ response' = [response EXCEPT ![r] = AuthFailed]
     ELSE /\ new_token' = [new_token EXCEPT ![r] = v]
          /\ token' = token
          /\ IF Truthy(v)
             THEN /\ pc' = [pc EXCEPT ![r] = "fetch_retry"]
                  /\ response' = response
                  /\ fetched' = fetched
             ELSE \* line 159 on the 401 response: HTTPError, caught at line 162
                  FetchReturnsNone(r)

\* ------------------------------------------- get_auth_token, lines 95-96
AuthGate(r) ==
  /\ pc[r] = "auth_gate"
  /\ \E reachable \in BOOLEAN :
       /\ net' = [net EXCEPT ![r] = Append(@, ProbeEv("get_auth_token", reachable))]
       /\ IF AuthGateOpen(reachable)
          THEN /\ attempt' = [attempt EXCEPT ![r] = 0]
               /\ pc' = [pc EXCEPT ![r] = "auth_post"]
               /\ UNCHANGED <<token, new_token, auth_calls, fetched, response>>
          ELSE /\ attempt' = attempt
               /\ AuthReturns(r, None)
  /\ UNCHANGED <<JWT_TOKEN, caller, params, key_mapping, resolvevars, shapevars, hb>>

\* ------------------- get_auth_token, one pass of the loop, lines 97-113
AuthPostOver(r, responses) ==
  /\ pc[r] = "auth_post"
  /\ attempt[r] < MaxAttempts
  /\ \E resp \in responses :
       LET posted == Append(net[r], LoginEv(attempt[r], resp.status))
       IN IF LoginIsTerminal(resp.status)
          THEN /\ net' = [net EXCEPT ![r] = posted]
               /\ attempt' = attempt
               /\ AuthReturns(r, None)
          ELSE IF resp.status = 0 \/ IsHttpError(resp.status)
          THEN \* lines 109-112
               IF attempt[r] + 1 < MaxAttempts
               THEN /\ net' = [net EXCEPT ![r] =
                                 IF SleepsAfter(attempt[r])
                                 THEN Append(posted, SleepEv(attempt[r], Backoff(attempt[r])))
                                 ELSE posted]
                    /\ attempt' = [attempt EXCEPT ![r] = @ + 1]
                    /\ UNCHANGED <<pc, token, new_token, auth_calls, fetched, response>>
               ELSE /\ net' = [net EXCEPT ![r] =
                                 IF SleepsAfter(attempt[r])
                                 THEN Append(posted, SleepEv(attempt[r], Backoff(attempt[r])))
                                 ELSE posted]
                    /\ attempt' = [attempt EXCEPT ![r] = @ + 1]
                    /\ AuthReturns(r, None)
          ELSE \* line 108: the body's token field, None when it has none
               /\ net' = [net EXCEPT ![r] = posted]
               /\ attempt' = attempt
               /\ AuthReturns(r, resp.token)
  /\ UNCHANGED <<JWT_TOKEN, caller, params, key_mapping, resolvevars, shapevars, hb>>

AuthPost(r) == AuthPostOver(r, LoginResponses)

\* ---------------------------------------- fetch_telemetry, lines 119-139
FetchGate(r) ==
  /\ pc[r] = "fetch_gate"
  /\ IF ~Truthy(token[r])
     THEN /\ FetchReturnsNone(r)
          /\ UNCHANGED <<net, params, key_mapping>>
     ELSE \E reachable \in BOOLEAN :
            /\ net' = [net EXCEPT ![r] = Append(@, ProbeEv("fetch_telemetry", reachable))]
            /\ IF reachable
               THEN /\ params' = [params EXCEPT ![r] = BuildParams(SnapshotKeys, 0, 0, 0, 0)]
                    /\ key_mapping' = MappingAfterBuild(key_mapping, SnapshotKeys)
                    /\ pc' = [pc EXCEPT ![r] = "fetch_get"]
                    /\ UNCHANGED <<fetched, response>>
               ELSE /\ UNCHANGED <<params, key_mapping>>
                    /\ FetchReturnsNone(r)
  /\ UNCHANGED <<JWT_TOKEN, caller, attempt, token, new_token, auth_calls,
                 resolvevars, shapevars, hb>>

\* ------------------- fetch_telemetry, a GET and what follows, lines 141-164
\* phase "first" is the GET of line 141, phase "retry" the GET of line 152;
\* on a parsed body the route goes on to lines 240-255.  response.json() on a
\* body that is not JSON raises requests.exceptions.JSONDecodeError, which is a
\* RequestException (requests 2.27 and later) and is caught at line 162
\* as FirstBearer, with the token kept in one module-level slot that the
\* request that obtained a token last has filled
FirstBearerShared(r) ==
  LET holders == {q \in Requests \ {r} : Truthy(token[q])}
  IN IF holders = {} THEN token[r] ELSE token[CHOOSE q \in holders : TRUE]

\* line 143: the header carries fetch_telemetry's own argument, which line 235
\* passes from the handler's local variable
FirstBearer(r) == token[r]

FetchRequestOver(r, phase, responses) ==
  /\ pc[r] = IF phase = "first" THEN "fetch_get" ELSE "fetch_retry"
  /\ \E resp \in responses, now \in 1..MaxTime :
       LET bearer == IF phase = "first" THEN FirstBearer(r) ELSE RetryBearer(token[r], new_token[r])
       IN /\ net' = [net EXCEPT ![r] = Append(@, GetEv(bearer, TelemetryUrl, params[r], resp))]
          /\ IF resp.status = 0
             THEN /\ FetchReturnsNone(r)
                  /\ caller' = caller
             ELSE IF NeedsRefresh(phase, resp.status)
             THEN /\ caller' = [caller EXCEPT ![r] = "reauth"]
                  /\ pc' = [pc EXCEPT ![r] = "auth_gate"]
                  /\ UNCHANGED <<fetched, response>>
             ELSE IF IsHttpError(resp.status)
             THEN /\ FetchReturnsNone(r)
                  /\ caller' = caller
             ELSE IF resp.kind = "notjson"
             THEN /\ FetchReturnsNone(r)
                  /\ caller' = caller
             ELSE /\ fetched' = [fetched EXCEPT ![r] = FetchedData(resp.data)]
                  /\ response' = [response EXCEPT ![r] = RouteTail(resp.data, now)]
                  /\ pc' = [pc EXCEPT ![r] = "done"]
                  /\ caller' = caller
  /\ UNCHANGED <<JWT_TOKEN, attempt, token, new_token, params, auth_calls,
                 key_mapping, resolvevars, shapevars, hb>>

FetchRequest(r, phase, payloads) == FetchRequestOver(r, phase, TelemetryResponsesOver(payloads))

FetchGet(r) == FetchRequest(r, "first", SnapshotPayloads)

FetchRetry(r) == FetchRequest(r, "retry", SnapshotPayloads)

Handle(r) ==
  \/ GetTelemetry(r)
  \/ AuthGate(r)
  \/ AuthPost(r)
  \/ FetchGate(r)
  \/ FetchGet(r)
  \/ FetchRetry(r)

Next == Handle("r1")

Spec == Init /\ [][Next]_vars

\* every step of a handler is a call with a timeout (5 s probe, 10 s login,
\* 15 s GET) or a sleep of 1 or 2 s, so a request under way goes on stepping
SpecFair == Spec /\ WF_vars(Next)

\* ------------------------------------- keep_alive_ping, lines 71-78
\* line 78
KeepAlivePeriod == 180

\* how a ping ends: answered with a success status, answered with an error
\* status (the transport's retries of lines 58-66 included), or raising
PingOutcomes == {"ok", "status", "raised"}

LoopSurvivesAnswered(outcome) == outcome # "raised"

\* lines 73-77: the response is not inspected, and the except clause catches
\* every Exception, so the loop goes on to line 78 whatever the outcome
LoopSurvives(outcome) == TRUE

\* lines 73-77: one ping
HeartbeatPing ==
  /\ hb.pc = "ping"
  /\ \E outcome \in PingOutcomes :
       hb' = IF LoopSurvives(outcome)
             THEN [pc |-> "sleep", last |-> outcome, slept |-> hb.slept]
             ELSE [pc |-> "dead", last |-> outcome, slept |-> hb.slept]
  /\ UNCHANGED <<reqvars, key_mapping, resolvevars, shapevars>>

\* line 78, and back to the top of the loop
HeartbeatSleep ==
  /\ hb.pc = "sleep"
  /\ hb' = [pc |-> "ping", last |-> "none", slept |-> KeepAlivePeriod]
  /\ UNCHANGED <<reqvars, key_mapping, resolvevars, shapevars>>

\* --------------------- concurrent requests beside the heartbeat thread
ConcLoginResponses ==
  [status : {401}, kind : {"none"}, token : {None}]
    \cup [status : {200}, kind : {"object"}, token : LoginTokens]

ConcTelemetryResponses ==
  [status : {401, 500}, kind : {"none"}, data : {{}}]
    \cup [status : {200}, kind : {"object"},
          data : {{},
                  {[k |-> "Power", a |-> <<>>]},
                  {[k |-> "Power", a |-> <<Dict(PyStr(<<"1", "2">>), PyNum(100))>>]}}]

HandleConc(r) ==
  \/ GetTelemetry(r)
  \/ AuthGate(r)
  \/ AuthPostOver(r, ConcLoginResponses)
  \/ FetchGate(r)
  \/ FetchRequestOver(r, "first", ConcTelemetryResponses)
  \/ FetchRequestOver(r, "retry", ConcTelemetryResponses)

NextConc ==
  \/ \E r \in Requests : HandleConc(r)
  \/ HeartbeatPing
  \/ HeartbeatSleep

SpecConc == Init /\ [][NextConc]_vars

\* one request beside the heartbeat thread; the thread is scheduled again and
\* again, its ping returns or raises within the timeout of line 74 and its
\* sleep ends
NextHeartbeat ==
  \/ HandleConc("r1")
  \/ HeartbeatPing
  \/ HeartbeatSleep

SpecHeartbeat ==
  Init /\ [][NextHeartbeat]_vars /\ WF_vars(HeartbeatPing) /\ WF_vars(HeartbeatSleep)

\* ------------------------- requests, and direct calls of fetch_telemetry
\* fetch_telemetry(token) called on its own, outside the route, stands at its
\* line 119 with the token it was given; response then is what line 241 would
\* answer for its result
DirectTokens == {None, "", "tokA"}

InitCalls ==
  /\ key_mapping = TELEMETRY_KEY_MAPPING
  /\ \E start \in {"idle", "fetch_gate"} :
       /\ pc = [r \in Requests |-> IF r = "r1" THEN start ELSE "idle"]
       /\ IF start = "idle"
          THEN /\ JWT_TOKEN \in {None, "", "override"}
               /\ token = [r \in Requests |-> None]
          ELSE /\ JWT_TOKEN = None
               /\ \E t \in DirectTokens :
                    token = [r \in Requests |-> IF r = "r1" THEN t ELSE None]
  /\ caller = [r \in Requests |-> "none"]
  /\ attempt = [r \in Requests |-> 0]
  /\ new_token = [r \in Requests |-> None]
  /\ params = [r \in Requests |-> NoParams]
  /\ net = [r \in Requests |-> <<>>]
  /\ auth_calls = [r \in Requests |-> <<>>]
  /\ fetched = [r \in Requests |-> NotFetched]
  /\ response = [r \in Requests |-> NoResponse]
  /\ NoDirectResolve
  /\ NoDirectShape
  /\ hb = HeartbeatStarted

NextCalls == Handle("r1")

SpecCalls == InitCalls /\ [][NextCalls]_vars


\* ------------------------------- direct calls of get_value_and_timestamp
ResolveKeys == Range(CanonicalOrder) \cup {"ngrok_url"}

ResolveElems ==
  {NonDict,
   Dict(PyStr(<<"1", "2">>), PyNum(100)),
   Dict(PyStr(<<"a">>), PyNone),
   Dict(Missing, Missing)}

ResolvePayloadKeys(key) == Range(MappingGet(key)) \cup {"other"}

InitResolve ==
  /\ key_mapping = TELEMETRY_KEY_MAPPING
  /\ NoDirectShape
  /\ hb = HeartbeatStarted
  /\ JWT_TOKEN = None
  /\ pc = [r \in Requests |-> "idle"]
  /\ caller = [r \in Requests |-> "none"]
  /\ attempt = [r \in Requests |-> 0]
  /\ token = [r \in Requests |-> None]
  /\ new_token = [r \in Requests |-> None]
  /\ params = [r \in Requests |-> NoParams]
  /\ net = [r \in Requests |-> <<>>]
  /\ auth_calls = [r \in Requests |-> <<>>]
  /\ fetched = [r \in Requests |-> NotFetched]
  /\ response = [r \in Requests |-> NoResponse]
  /\ rkey \in ResolveKeys
  /\ \E K \in SUBSET ResolvePayloadKeys(rkey) :
       /\ Cardinality(K) <= MaxKeys
       /\ \E f \in [K -> SeqsUpTo(ResolveElems, MaxLen)] :
            rdata = {[k |-> x, a |-> f[x]] : x \in K}
  /\ rout = Pending

Resolve ==
  /\ rout = Pending
  /\ rout' = get_value_and_timestamp(rdata, rkey)
  /\ UNCHANGED <<rkey, rdata, reqvars, key_mapping, shapevars, hb>>

NextResolve == Resolve

SpecResolve == InitResolve /\ [][NextResolve]_vars

\* direct calls on a payload with one alias of the key, whose array may hold
\* more than one element
FirstElems ==
  ResolveElems \cup {Dict(PyStr(<<"a">>), PyNum(100)), Dict(PyNone, PyNum(100))}

InitFirst ==
  /\ InitRequests
  /\ JWT_TOKEN = None
  /\ NoDirectShape
  /\ hb = HeartbeatStarted
  /\ rkey \in ResolveKeys
  /\ \E alias \in Range(MappingGet(rkey)), arr \in SeqsUpTo(FirstElems, MaxLen + 1) :
       rdata = {[k |-> alias, a |-> arr]}
  /\ rout = Pending

NextFirst == Resolve

SpecFirst == InitFirst /\ [][NextFirst]_vars


\* --------------------- lines 240-255 on payloads with the tunnel's aliases
\* the arrays an alias may come with: empty, one element, or that element
\* followed by another URL; the URL under an alias names the alias, so that
\* the answer shows which alias it was taken from
NgrokArrays(key) ==
  LET firsts == {NonDict, Dict(Missing, PyNum(100)), Dict(PyNone, PyNum(100)),
                 Dict(PyStr(<<key>>), PyNum(100))}
  IN {<<>>} \cup {<<e>> : e \in firsts}
       \cup {<<e, Dict(PyStr(<<"later">>), PyNum(100))>> : e \in firsts}

InitSnapshot ==
  /\ InitRequests
  /\ JWT_TOKEN = None
  /\ NoDirectResolve
  /\ hb = HeartbeatStarted
  /\ sdays = 0
  /\ \E K \in SUBSET Range(NgrokKeys) :
       \E f \in [K -> UNION {NgrokArrays(k) : k \in K}] :
         /\ \A k \in K : f[k] \in NgrokArrays(k)
         /\ sdata = {[k |-> x, a |-> f[x]] : x \in K}
  /\ sout = NoResponse

ShapeSnapshot ==
  /\ sout = NoResponse
  /\ \E now \in 1..MaxTime : sout' = RouteTail(sdata, now)
  /\ UNCHANGED <<sdata, sdays, reqvars, key_mapping, resolvevars, hb>>

NextSnapshot == ShapeSnapshot

SpecSnapshot == InitSnapshot /\ [][NextSnapshot]_vars

\* ------------------------- range shaping: weekly and monthly (spec 4.5, 6)
\* lines 257-265 hold only the routes' declarations; the shaping below follows
\* the specification's section 4.5
\* line 224 counts a day as 24*60*60*1000 ms; the range's two ends are kept
\* in seconds here, so that thirty days fit TLC's 32-bit integers
DaySeconds == 24 * 60 * 60

\* lines 221-224, with time.time() passed in as now
get_time_range(days, now) == [start_ts |-> now - days * DaySeconds, end_ts |-> now]

IntervalLabel(days) == IF days <= 7 THEN "hourly" ELSE "daily"

\* the array under the metric's actual upstream key, empty when none resolves
MetricArray(telemetry_data, metric) ==
  LET actual_key == find_matching_key(telemetry_data, MappingGet(metric))
  IN IF actual_key = None THEN <<>> ELSE Get(telemetry_data, actual_key)

RangeLen(telemetry_data) ==
  LET lens == {Len(MetricArray(telemetry_data, m)) : m \in Range(CanonicalOrder)}
  IN CHOOSE n \in lens : \A k \in lens : k <= n

PointValue(telemetry_data, metric, i) ==
  LET arr == MetricArray(telemetry_data, metric)
  IN IF i <= Len(arr) THEN DictGet(arr[i].value, PyNum(0)) ELSE PyNum(0)

\* as PointTimestamp, but from the first metric that has an i-th element
PointTimestampOwn(telemetry_data, i) ==
  LET having == {j \in 1..Len(CanonicalOrder) :
                   i <= Len(MetricArray(telemetry_data, CanonicalOrder[j]))}
  IN IF having = {} THEN PyNone
     ELSE DictGet(MetricArray(telemetry_data,
                              CanonicalOrder[CHOOSE j \in having : \A k \in having : j <= k])[i].ts,
                  PyNone)

\* the point's timestamp comes from the power metric's i-th element only
PointTimestamp(telemetry_data, i) ==
  LET arr == MetricArray(telemetry_data, "power")
  IN IF i <= Len(arr) THEN DictGet(arr[i].ts, PyNone) ELSE PyNone

RangePoint(telemetry_data, i) ==
  [timestamp |-> PointTimestamp(telemetry_data, i),
   power |-> PointValue(telemetry_data, "power", i),
   voltage |-> PointValue(telemetry_data, "voltage", i),
   current |-> PointValue(telemetry_data, "current", i),
   frequency |-> PointValue(telemetry_data, "frequency", i),
   rmp |-> PointValue(telemetry_data, "rmp", i),
   energy |-> PointValue(telemetry_data, "energy", i),
   powerfactor |-> PointValue(telemetry_data, "powerfact", i)]

\* the 200 answer of a range route for a fetched payload
RangeBody(telemetry_data, days, now) ==
  [kind |-> "range", status |-> 200,
   data |-> [i \in 1..RangeLen(telemetry_data) |-> RangePoint(telemetry_data, i)],
   start_ts |-> get_time_range(days, now).start_ts,
   end_ts |-> get_time_range(days, now).end_ts,
   interval |-> IntervalLabel(days), days |-> days, online |-> TRUE]

\* payloads a range query brings back: records with a value and a ts
RangeElems ==
  {Dict(PyNum(10), PyNum(100)), Dict(PyNum(20), PyNum(200)), Dict(PyNum(230), PyNum(999))}

RangePayloadKeys == {"Power", "Voltage"}

RangeDays == {7, 30}

InitRange ==
  /\ InitRequests
  /\ JWT_TOKEN = None
  /\ NoDirectResolve
  /\ hb = HeartbeatStarted
  /\ sdays \in RangeDays
  /\ \E K \in SUBSET RangePayloadKeys :
       \E f \in [K -> SeqsUpTo(RangeElems, MaxLen + 1)] :
         sdata = {[k |-> x, a |-> f[x]] : x \in K}
  /\ sout = NoResponse

ShapeRange ==
  /\ sout = NoResponse
  /\ \E now \in 1..MaxTime : sout' = RangeBody(sdata, sdays, now)
  /\ UNCHANGED <<sdata, sdays, reqvars, key_mapping, resolvevars, hb>>

NextRange == ShapeRange

SpecRange == InitRange /\ [][NextRange]_vars


\* =================================================================== claims
\* positions in a request's log
Idx(r) == 1..Len(net[r])
GetIdx(r) == {i \in Idx(r) : net[r][i].op = "get"}
LoginIdx(r) == {i \in Idx(r) : net[r][i].op = "login"}
SleepIdx(r) == {i \in Idx(r) : net[r][i].op = "sleep"}
\* every call of get_auth_token starts with its probe
AuthStartIdx(r) == {i \in Idx(r) : net[r][i].op = "probe" /\ net[r][i].by = "get_auth_token"}
\* the re-authentications: the calls of get_auth_token made after a GET
ReauthIdx(r) == {i \in AuthStartIdx(r) : \E g \in GetIdx(r) : g < i}
MinOf(S) == CHOOSE i \in S : \A j \in S : i <= j
MaxOf(S) == CHOOSE i \in S : \A j \in S : i >= j
FirstGet(r) == net[r][MinOf(GetIdx(r))]
LastGet(r) == net[r][MaxOf(GetIdx(r))]
\* the results of the re-authentications that have ended
ReauthResults(r) ==
  {auth_calls[r][i].result : i \in {j \in 1..Len(auth_calls[r]) : auth_calls[r][j].caller = "reauth"}}
\* the log of the call of get_auth_token that starts at position i: what it
\* did after its probe (the call's events are the ones by get_auth_token up to
\* the next event of fetch_telemetry)
CallEnd(r, i) ==
  LET later == {j \in Idx(r) : j > i /\ net[r][j].by # "get_auth_token"}
  IN IF later = {} THEN Len(net[r]) ELSE MinOf(later) - 1
CallLog(r, i) == SubSeq(net[r], i + 1, CallEnd(r, i))
\* the call that starts at position i has returned
CallEnded(r, i) == Len(auth_calls[r]) >= Cardinality({j \in AuthStartIdx(r) : j <= i})
CallResult(r, i) == auth_calls[r][Cardinality({j \in AuthStartIdx(r) : j <= i})].result

\* C1: a fetch whose first GET is answered 401 and whose retried GET is
\* answered 200 has made exactly one re-authentication and exactly two GETs;
\* the retried GET carries the token the re-authentication returned, with
\* the URL and query parameters of the first GET, and fetch_telemetry returns
\* the parsed body of the retried response.
C1_RefreshOnceAndRetry ==
  \A r \in Requests :
    (Cardinality(GetIdx(r)) >= 2 /\ FirstGet(r).status = 401 /\ LastGet(r).status = 200)
      => /\ Cardinality(ReauthIdx(r)) = 1
         /\ Cardinality(GetIdx(r)) = 2
         /\ ReauthResults(r) = {LastGet(r).token}
         /\ LastGet(r).token = new_token[r]
         /\ LastGet(r).url = FirstGet(r).url
         /\ LastGet(r).params = FirstGet(r).params
         /\ LastGet(r).kind = "object" => fetched[r] = FetchedData(LastGet(r).data)

C1_Witness ==
  \E r \in Requests :
    /\ Cardinality(GetIdx(r)) = 2
    /\ FirstGet(r).status = 401
    /\ LastGet(r).status = 200
    /\ LastGet(r).token # FirstGet(r).token
    /\ LastGet(r).data # {}
    /\ fetched[r] = FetchedData(LastGet(r).data)
    /\ response[r].status = 200

\* C2: a fetch makes at most one re-authentication and at most two GETs; when
\* the re-authentication returns no token, or the retried GET gets a 401, any
\* other error status or no response, fetch_telemetry has returned None and
\* the request is over.
RetriedGetFailed(r) ==
  Cardinality(GetIdx(r)) >= 2 /\ (LastGet(r).status = 0 \/ IsHttpError(LastGet(r).status))

ReauthGaveNoToken(r) == \E v \in ReauthResults(r) : ~Truthy(v)

C2_AtMostOneRefresh ==
  \A r \in Requests :
    /\ Cardinality(ReauthIdx(r)) <= 1
    /\ Cardinality(GetIdx(r)) <= 2
    /\ (ReauthGaveNoToken(r) \/ RetriedGetFailed(r))
         => (fetched[r] = FetchedNone /\ pc[r] = "done")

C2_Witness ==
  \E r \in Requests :
    /\ Cardinality(GetIdx(r)) = 2
    /\ LastGet(r).status = 401
    /\ Cardinality(ReauthIdx(r)) = 1
    /\ fetched[r] = FetchedNone
    /\ pc[r] = "done"

\* C3: with a static override token configured the authenticator returns the
\* override and makes no network call (no probe, no login POST), in every
\* invocation, the re-authentication after a 401 included.
C3_OverrideMakesNoAuthCall ==
  \A r \in Requests :
    Truthy(JWT_TOKEN)
      => /\ \A i \in Idx(r) : net[r][i].by # "get_auth_token"
         /\ \A i \in 1..Len(auth_calls[r]) : auth_calls[r][i].result = JWT_TOKEN

\* C4: a 401 from the login endpoint ends get_auth_token at once: the call
\* returns None, nothing follows the 401 (no sleep, no further POST), and the
\* call has made as many POSTs as the attempt number says, so a 401 on the
\* first attempt means one login attempt in all.
C4_Login401IsTerminal ==
  \A r \in Requests : \A s \in AuthStartIdx(r) : \A i \in LoginIdx(r) :
    (s < i /\ i <= CallEnd(r, s) /\ net[r][i].status = 401)
      => /\ i = CallEnd(r, s)
         /\ i = Len(net[r])
         /\ CallEnded(r, s) /\ CallResult(r, s) = None
         /\ Cardinality({j \in LoginIdx(r) : s < j /\ j <= i}) = net[r][i].attempt + 1
         /\ net[r][i].attempt = 0 => CallLog(r, s) = <<net[r][i]>>

C4_Witness ==
  \E r \in Requests :
    /\ Len(net[r]) = 2
    /\ net[r][2].op = "login" /\ net[r][2].status = 401
    /\ auth_calls[r] = <<[caller |-> "initial", result |-> None]>>
    /\ response[r] = AuthFailed

\* C5: a call of get_auth_token all of whose login attempts failed without a
\* 401 has made exactly three attempts, slept 1 second after the first and 2
\* seconds after the second, not slept after the third, and returned None.
OpsOf(log) == [i \in 1..Len(log) |-> <<log[i].op, log[i].attempt, log[i].secs>>]

AllLoginsFailed(log) ==
  \A i \in 1..Len(log) :
    log[i].op = "login" => (log[i].status # 401 /\ (log[i].status = 0 \/ IsHttpError(log[i].status)))

C5_ThreeAttemptsWithBackoff ==
  \A r \in Requests : \A s \in AuthStartIdx(r) :
    (CallEnded(r, s) /\ net[r][s].ok /\ AllLoginsFailed(CallLog(r, s)))
      => /\ OpsOf(CallLog(r, s)) =
              <<<<"login", 0, 0>>, <<"sleep", 0, 1>>, <<"login", 1, 0>>, <<"sleep", 1, 2>>,
                <<"login", 2, 0>>>>
         /\ CallResult(r, s) = None

C5_Witness ==
  \E r \in Requests : \E s \in AuthStartIdx(r) :
    /\ CallEnded(r, s)
    /\ Cardinality({i \in LoginIdx(r) : net[r][i].status = 500}) = 3
    /\ Len(CallLog(r, s)) = 5
    /\ CallResult(r, s) = None
    /\ response[r] = AuthFailed


\* C6: every request ends in one of three answers: 200 with a snapshot, the
\* 401 "Authentication failed" body or the 500 "Could not fetch telemetry"
\* body; no exception leaves the route.
C6_OneOfThreeAnswers ==
  \A r \in Requests :
    pc[r] = "done"
      => \/ response[r] = AuthFailed
         \/ response[r] = FetchFailed
         \/ (response[r].kind = "json" /\ response[r].status = 200 /\ Len(response[r].body) = 1)

\* the aliases of a canonical key that are keys of the payload, by position
PresentAliases(data, key) ==
  {i \in 1..Len(MappingGet(key)) : HasKey(data, MappingGet(key)[i])}
\* the alias that comes first in the table among those present
EarliestAlias(data, key) == MappingGet(key)[MinOf(PresentAliases(data, key))]

\* C7: when the first matching alias of the key maps to an empty array,
\* get_value_and_timestamp returns (0.0, None) and does not raise.
C7_EmptyArrayGivesDefault ==
  (/\ rout # Pending
   /\ PresentAliases(rdata, rkey) # {}
   /\ Get(rdata, EarliestAlias(rdata, rkey)) = <<>>)
    => rout = Returned(0, PyNone)

\* the snapshot's field names
OutField(key) == IF key = "powerfact" THEN "powerfactor" ELSE key
TsField(key) ==
  CASE key = "power" -> "power_timestamp"
    [] key = "voltage" -> "voltage_timestamp"
    [] key = "current" -> "current_timestamp"
    [] key = "frequency" -> "frequency_timestamp"
    [] key = "rmp" -> "rmp_timestamp"
    [] key = "energy" -> "energy_timestamp"
    [] key = "powerfact" -> "powerfactor_timestamp"
\* the payload has no usable sample for the key: no alias, an empty array or
\* a first element that is not a record
NoSample(data, key) ==
  \/ PresentAliases(data, key) = {}
  \/ Get(data, EarliestAlias(data, key)) = <<>>
  \/ ~Get(data, EarliestAlias(data, key))[1].isDict

\* C8: whenever the last GET of a request is answered 200 with a JSON object
\* the route answers 200 with online true, every metric without a usable
\* sample being 0.0 with no timestamp; this includes the empty object.
C8_FetchedObjectAnswers200 ==
  \A r \in Requests :
    (pc[r] = "done" /\ GetIdx(r) # {} /\ LastGet(r).status = 200 /\ LastGet(r).kind = "object")
      => /\ response[r].kind = "json"
         /\ response[r].status = 200
         /\ response[r].online
         /\ Len(response[r].body) = 1
         /\ \A i \in 1..Len(CanonicalOrder) :
              NoSample(LastGet(r).data, CanonicalOrder[i])
                => /\ response[r].body[1][OutField(CanonicalOrder[i])] = 0
                   /\ response[r].body[1][TsField(CanonicalOrder[i])] = PyNone

\* C9: with no override token and the probe reporting unreachable the route
\* answers 401 "Authentication failed" after the probe alone: no login POST
\* and no telemetry GET is made.
C9_UnreachableAnswers401 ==
  \A r \in Requests :
    (~Truthy(JWT_TOKEN) /\ Len(net[r]) >= 1 /\ net[r][1].op = "probe" /\ ~net[r][1].ok)
      => /\ response[r] = AuthFailed
         /\ pc[r] = "done"
         /\ LoginIdx(r) = {}
         /\ GetIdx(r) = {}
         /\ Len(net[r]) = 1

C9_Witness ==
  \E r \in Requests :
    /\ ~Truthy(JWT_TOKEN)
    /\ net[r] = <<ProbeEv("get_auth_token", FALSE)>>
    /\ response[r] = AuthFailed

C11_AbsentKeyGivesDefault ==
  (rout # Pending /\ PresentAliases(rdata, rkey) = {}) => rout = Returned(0, PyNone)

C11_Witness ==
  /\ rkey = "powerfact"
  /\ rdata = {[k |-> "other", a |-> <<Dict(PyStr(<<"1", "2">>), PyNum(100))>>]}
  /\ rout = Returned(0, PyNone)


\* the array of the earliest alias of the key present in the payload
ResolvedArray(data, key) ==
  IF PresentAliases(data, key) = {} THEN <<>> ELSE Get(data, EarliestAlias(data, key))

FetchStartIdx(r) == {i \in Idx(r) : net[r][i].op = "probe" /\ net[r][i].by = "fetch_telemetry"}

\* C13: every login POST lies in a call of get_auth_token whose opening probe
\* reported reachable, and every telemetry GET follows a reachable probe made
\* at the start of fetch_telemetry with a token that is not absent; a call
\* whose probe reported unreachable, and a fetch_telemetry given an absent
\* token, has returned None without any HTTP request.
C13_ProbeGatesEveryCall ==
  \A r \in Requests :
    /\ \A i \in LoginIdx(r) :
         \E s \in AuthStartIdx(r) : s < i /\ i <= CallEnd(r, s) /\ net[r][s].ok
    /\ \A g \in GetIdx(r) :
         /\ \E s \in FetchStartIdx(r) : s < g /\ net[r][s].ok
         /\ Truthy(net[r][g].token)
    /\ \A s \in AuthStartIdx(r) :
         ~net[r][s].ok
           => CallLog(r, s) = <<>> /\ CallEnded(r, s) /\ CallResult(r, s) = None
    /\ \A s \in FetchStartIdx(r) :
         ~net[r][s].ok
           => s = Len(net[r]) /\ GetIdx(r) = {} /\ fetched[r] = FetchedNone
    /\ (fetched[r] # NotFetched /\ ~Truthy(token[r]))
         => net[r] = <<>> /\ fetched[r] = FetchedNone
    /\ Cardinality(FetchStartIdx(r)) <= 1

C13_Witness ==
  \E r \in Requests :
    /\ Truthy(token[r])
    /\ FetchStartIdx(r) # {}
    /\ ~net[r][Len(net[r])].ok
    /\ net[r][Len(net[r])].op = "probe"
    /\ net[r][Len(net[r])].by = "fetch_telemetry"
    /\ GetIdx(r) = {}
    /\ fetched[r] = FetchedNone

\* a fetch_telemetry called with an absent token has returned None at once
C13_AbsentTokenReached ==
  \E r \in Requests : token[r] = "" /\ fetched[r] = FetchedNone /\ net[r] = <<>>


\* the tokens a request has a right to: the override, and what its own calls
\* of get_auth_token returned
OwnTokens(r) == {JWT_TOKEN} \cup {auth_calls[r][i].result : i \in 1..Len(auth_calls[r])}
\* what belongs to one request
RequestState(r) ==
  <<pc[r], caller[r], attempt[r], token[r], new_token[r], params[r], net[r],
    auth_calls[r], fetched[r], response[r]>>
\* an answer without its capture time
SansTime(resp) ==
  IF Len(resp.body) = 1
  THEN [resp EXCEPT !.body = <<[resp.body[1] EXCEPT !.timestamp = 0]>>]
  ELSE resp

\* C14: with two requests and the heartbeat thread interleaved in every
\* order, no step changes the alias table or the override token; a step
\* changes the variables of at most one request and a heartbeat step of none;
\* every token a request holds or sends is the override or one its own
\* get_auth_token calls returned; and two requests that saw the same probe
\* results and upstream responses give the same answer (capture time aside).
C14_NoSharingBetweenRequests ==
  /\ [][/\ key_mapping' = key_mapping
        /\ JWT_TOKEN' = JWT_TOKEN
        /\ \A r, q \in Requests :
             r # q => (RequestState(r)' = RequestState(r) \/ RequestState(q)' = RequestState(q))
        /\ hb' # hb => \A r \in Requests : RequestState(r)' = RequestState(r)]_vars
  /\ [](\A r \in Requests :
          /\ \A g \in GetIdx(r) : net[r][g].token \in OwnTokens(r)
          /\ token[r] \in OwnTokens(r) \cup {None}
          /\ new_token[r] \in OwnTokens(r) \cup {None})
  /\ [](\A r, q \in Requests :
          (pc[r] = "done" /\ pc[q] = "done" /\ net[r] = net[q])
            => SansTime(response[r]) = SansTime(response[q]))

C14_Witness ==
  /\ pc["r1"] = "done" /\ pc["r2"] = "done"
  /\ GetIdx("r1") # {} /\ GetIdx("r2") # {}
  /\ LastGet("r1").token = "tokA" /\ LastGet("r2").token = "tokB"
  /\ response["r1"].status = 200 /\ response["r2"].status = 200
  /\ hb.slept = KeepAlivePeriod
  /\ key_mapping = TELEMETRY_KEY_MAPPING


\* C16: the heartbeat thread never leaves its loop: whatever way a ping ends
\* (success, error status, exception) the thread sleeps 180 s and then pings
\* again, and pings recur for ever, whatever the request running beside it does.
C16_HeartbeatNeverStops ==
  /\ [](hb.pc \in {"ping", "sleep"})
  /\ [][(hb.pc = "ping" /\ hb' # hb) => (hb'.pc = "sleep" /\ hb'.last \in PingOutcomes)]_vars
  /\ [][(hb.pc = "sleep" /\ hb' # hb) => (hb'.pc = "ping" /\ hb'.slept = KeepAlivePeriod)]_vars
  /\ \A outcome \in PingOutcomes :
       (hb.pc = "sleep" /\ hb.last = outcome) ~> hb.pc = "ping"
  /\ []<>(hb.pc = "sleep")

C16_Witness ==
  /\ hb.pc = "sleep"
  /\ hb.last = "raised"
  /\ hb.slept = KeepAlivePeriod
  /\ pc["r1"] = "done"
  /\ response["r1"].kind = "uncaught"


\* C15: a request makes at most 6 login POSTs and at most 2 telemetry GETs,
\* and whatever upstream answers, a request under way ends with a response.
C15_BoundedAndTerminates ==
  /\ [](\A r \in Requests :
          /\ Cardinality(LoginIdx(r)) <= 2 * MaxAttempts
          /\ Cardinality(GetIdx(r)) <= 2
          /\ pc[r] = "done" => response[r].status \in {200, 401, 500})
  /\ \A r \in Requests : (pc[r] # "idle") ~> (pc[r] = "done")
  /\ <>(pc["r1"] = "done")

C15_Witness ==
  \E r \in Requests :
    /\ pc[r] = "done"
    /\ Cardinality(LoginIdx(r)) = 6
    /\ Cardinality(GetIdx(r)) = 2
    /\ response[r].status = 200


\* C17: when the key resolves to a non-empty array whose element 0 is a
\* record, the sample is made of element 0 alone: the value parsed from its
\* value field, 0.0 when that field is non-numeric, null or missing, and the
\* ts field as it stands, None when the element has none; no exception is
\* raised.
C17_FirstElementDecides ==
  (/\ rout # Pending
   /\ PresentAliases(rdata, rkey) # {}
   /\ ResolvedArray(rdata, rkey) # <<>>
   /\ ResolvedArray(rdata, rkey)[1].isDict)
    => LET first == ResolvedArray(rdata, rkey)[1]
       IN /\ rout.exc = "none"
          /\ rout.ts = (IF first.ts = Missing THEN PyNone ELSE first.ts)
          /\ rout.value =
               (CASE first.value.vt = "number" -> first.value.n
                  [] first.value.vt = "string" /\ Float(first.value).ok -> Float(first.value).f
                  [] OTHER -> 0)

C17_Witness ==
  /\ rkey = "voltage"
  /\ rdata = {[k |-> "Voltage",
               a |-> <<Dict(PyStr(<<"a">>), PyNum(100)), Dict(PyStr(<<"1", "2">>), PyNum(100))>>]}
  /\ rout = Returned(0, PyNum(100))


\* the tunnel aliases present in the payload with a non-empty array, by position
NgrokPresent(data) ==
  {i \in 1..Len(NgrokKeys) : HasKey(data, NgrokKeys[i]) /\ Get(data, NgrokKeys[i]) # <<>>}
\* those among them whose first element is a record with a value field
NgrokUsable(data) ==
  {i \in NgrokPresent(data) :
     Get(data, NgrokKeys[i])[1].isDict /\ Get(data, NgrokKeys[i])[1].value # Missing}

\* C18 as stated: in a 200 snapshot ngrok_url is the value field of the first
\* element of the first alias present with a non-empty array, null when no
\* alias is present and non-empty, and never a later alias's value.
C18_FirstPresentAliasOnly ==
  (sout.kind = "json" /\ sout.status = 200)
    => LET url == sout.body[1].ngrok_url
       IN IF NgrokPresent(sdata) = {} THEN url = PyNone
          ELSE LET first == Get(sdata, NgrokKeys[MinOf(NgrokPresent(sdata))])[1]
               IN url = (IF first.isDict /\ first.value # Missing THEN first.value ELSE PyNone)

\* C18, amended: in a 200 snapshot ngrok_url is the value field of the first
\* element of the first alias, in the order ngrok_url, Ngrok_Url, NGROK_URL,
\* that is present with a non-empty array whose first element is a record
\* with a value field; it is null when no alias is such.  An alias whose first
\* element is not a record or has no value field is passed over for the next.
C18_FirstUsableAlias ==
  (sout.kind = "json" /\ sout.status = 200)
    => sout.body[1].ngrok_url =
         (IF NgrokUsable(sdata) = {} THEN PyNone
          ELSE Get(sdata, NgrokKeys[MinOf(NgrokUsable(sdata))])[1].value)

C18_Witness ==
  /\ sdata = {[k |-> "ngrok_url", a |-> <<Dict(Missing, PyNum(100))>>],
              [k |-> "Ngrok_Url", a |-> <<Dict(PyStr(<<"Ngrok_Url">>), PyNum(100))>>],
              [k |-> "NGROK_URL", a |-> <<Dict(PyStr(<<"NGROK_URL">>), PyNum(100))>>]}
  /\ sout.status = 200
  /\ sout.body[1].ngrok_url = PyStr(<<"Ngrok_Url">>)


\* C19: a finished request is answered 401 exactly when line 231 left the
\* route without a token; once it has a token, every failure of the fetch is
\* answered 500 "Could not fetch telemetry"; every answer that is not a 200 is
\* a JSON body carrying online: false, and every 200 carries online: true.
C19_ErrorAnswersCarryOnlineFalse ==
  \A r \in Requests :
    pc[r] = "done"
      => /\ response[r].status = 401 <=> ~Truthy(token[r])
         /\ ~Truthy(token[r]) => response[r] = AuthFailed
         /\ (Truthy(token[r]) /\ fetched[r] = FetchedNone) => response[r] = FetchFailed
         /\ response[r].status # 200
              => /\ response[r].kind = "json"
                 /\ response[r].online = FALSE
                 /\ response[r].error \in {"Authentication failed", "Could not fetch telemetry"}
         /\ response[r].status = 200 => response[r].online = TRUE

====
